---- MODULE Spec2Model ----
(***************************************************************************)
(* Model of src/tux/cogs/services/bookmarks.py: the Bookmarks cog.         *)
(*                                                                         *)
(* on_raw_reaction_add is one coroutine; every statement of it is one     *)
(* action below, in program order, with pc naming the next statement.     *)
(* The discord.py client (cache lookups, HTTP fetches, sends, deletes) is  *)
(* the environment: every awaited call has one action per outcome, the     *)
(* outcome being a value or one of the exceptions the library documents.   *)
(*                                                                         *)
(* Strings are sequences of code points; `x in s` on two Python strings    *)
(* is substring containment and is modelled as such.                       *)
(***************************************************************************)
EXTENDS Integers, Sequences, FiniteSets, TLC

(***************************************************************************)
(* Bounds of the model.                                                    *)
(***************************************************************************)
\* longest emoji name a reaction event carries
MaxNameLen == 2
\* direct messages the bot may create during a run
MaxDMs == 1
\* longest message content fed to _create_bookmark_embed
MaxContentLen == 7

\* CONST.EMBED_MAX_DESC_LENGTH (bookmarks.py:93), scaled down; any value >= 3
\* keeps the slice [: EMBED_MAX_DESC_LENGTH - 3] non-negative as in the code.
EMBED_MAX_DESC_LENGTH == 4

\* code points emoji names are made of
CodePoints == {1, 2}
\* characters message contents are made of ("." so that content may itself
\* end in dots)
ContentChars == {"a", "."}

Strings(S, lo, hi) == UNION {[1..n -> S] : n \in lo..hi}

IsSubstring(s, t) ==
    \E i \in 0..(Len(t) - Len(s)) : SubSeq(t, i + 1, i + Len(s)) = s

\* the values CONST.ADD_BOOKMARK / CONST.REMOVE_BOOKMARK may have: CONST is
\* defined outside this file, so the cog is constructed with any two
\* emoji strings of one or two code points neither of which contains the
\* other. Code points are interchangeable, so ADD_BOOKMARK's first one is
\* fixed.
EmojiConstants == Strings(CodePoints, 1, 2)
BookmarkConstants ==
    {c \in EmojiConstants \X EmojiConstants :
        /\ c[1][1] = 1
        /\ ~IsSubstring(c[1], c[2])
        /\ ~IsSubstring(c[2], c[1])}
\* the names events carry: a reaction's emoji name is never empty
EmojiNames == Strings(CodePoints, 1, MaxNameLen)
Contents == Strings(ContentChars, 0, MaxContentLen)

BotId == 0
HumanId == 1
UserIds == {BotId, HumanId}

None == "None"
NoMsg == 0
NoUser == [id |-> -1, is_bot_user |-> FALSE]
NoMessage == [id |-> NoMsg, author |-> -1, author_is_bot_user |-> FALSE,
              channel |-> None, content |-> <<>>]
NoEmbed == [description |-> <<>>]

\* discord.py's exception classes: NotFound and Forbidden derive from
\* HTTPException.
DiscordErrors == {"NotFound", "Forbidden", "HTTPException"}
IsInstance(exc, cls) ==
    \/ exc = cls
    \/ (cls = "HTTPException" /\ exc \in {"NotFound", "Forbidden"})

VARIABLES
    \* fields of the cog (__init__)
    valid_add_emojis, valid_remove_emojis, valid_emojis,
    \* the platform: messages by id, and the reaction events of the bot's
    \* own reactions that are not yet dispatched
    msgs, pending,
    \* the running invocation of on_raw_reaction_add
    pc, payload, user, channel, message, embed,
    \* what the invocation has done so far
    trace, logged, raised, dmSent, noticePosted, noticeDeleteScheduled, deleted,
    failedStep, ownEvent

cogVars == <<valid_add_emojis, valid_remove_emojis, valid_emojis>>
worldVars == <<msgs, pending>>
localVars == <<payload, user, channel, message, embed>>
histVars == <<logged, raised, dmSent, noticePosted, noticeDeleteScheduled, deleted,
             failedStep, ownEvent>>
vars == <<cogVars, worldVars, pc, localVars, trace, histVars>>

(***************************************************************************)
(* Bookmarks._is_valid_emoji: `emoji.name in valid_list`, both strings.    *)
(***************************************************************************)
_is_valid_emoji(emoji, valid_list) == IsSubstring(emoji, valid_list)

(***************************************************************************)
(* Bookmarks._create_bookmark_embed: the content after the truncation      *)
(* (the method assigns it back to message.content) and the description     *)
(* handed to EmbedCreator.create_embed.                                    *)
(***************************************************************************)
Ellipsis == <<".", ".", ".">>
QuotePrefix == <<">", " ">>

TruncatedContent(content) ==
    IF Len(content) > EMBED_MAX_DESC_LENGTH
    THEN SubSeq(content, 1, EMBED_MAX_DESC_LENGTH - 3) \o Ellipsis
    ELSE content

\* EmbedCreator.create_embed (tux.ui.embeds, not in this file) stores the
\* description it is given.
EmbedCreator_create_embed(description) == [description |-> description]

_create_bookmark_embed(content) ==
    EmbedCreator_create_embed(QuotePrefix \o TruncatedContent(content))

(***************************************************************************)
(* The platform at start-up: a guild message by a human, a guild message   *)
(* by the bot, and a bookmark DM the bot sent earlier. The guild messages  *)
(* are longer than EMBED_MAX_DESC_LENGTH.                                  *)
(***************************************************************************)
LongContent == [i \in 1..(EMBED_MAX_DESC_LENGTH + 1) |-> "a"]

InitialMsgs ==
    << [author |-> HumanId, channel |-> "guild", content |-> LongContent,
        embed |-> NoEmbed, exists |-> TRUE],
       [author |-> BotId, channel |-> "guild", content |-> LongContent,
        embed |-> NoEmbed, exists |-> TRUE],
       [author |-> BotId, channel |-> "dm", content |-> <<>>,
        embed |-> _create_bookmark_embed(LongContent), exists |-> TRUE] >>
NumInitialMsgs == Len(InitialMsgs)

NoPayload ==
    [emoji |-> <<>>, user_id |-> BotId, channel_id |-> "guild", message_id |-> NoMsg]

\* Message objects discord.py builds: in a DM the author is the cached user
\* object, which for the bot's id is bot.user itself; in a guild the author
\* is a Member object, never identical to bot.user.
FetchedMessage(id) ==
    [id |-> id, author |-> msgs[id].author,
     author_is_bot_user |-> (msgs[id].author = BotId /\ msgs[id].channel = "dm"),
     channel |-> msgs[id].channel, content |-> msgs[id].content]

\* bot.get_user for the bot's own id returns bot.user (the client user is
\* kept in the user cache); any other cached user is a distinct object.
CachedUser(id) == [id |-> id, is_bot_user |-> (id = BotId)]
\* bot.fetch_user builds a fresh User object
FetchedUser(id) == [id |-> id, is_bot_user |-> FALSE]

ResetInvocation ==
    /\ user' = NoUser
    /\ channel' = None
    /\ message' = NoMessage
    /\ embed' = NoEmbed
    /\ trace' = <<>>
    /\ logged' = <<>>
    /\ raised' = None
    /\ dmSent' = NoMsg
    /\ noticePosted' = FALSE
    /\ noticeDeleteScheduled' = FALSE
    /\ deleted' = NoMsg
    /\ failedStep' = None

Init ==
    /\ \E c \in BookmarkConstants :
          /\ valid_add_emojis = c[1]
          /\ valid_remove_emojis = c[2]
          /\ valid_emojis = c[1] \o c[2]
    /\ msgs = InitialMsgs
    /\ pending = {}
    /\ pc = "idle"
    /\ payload = NoPayload
    /\ user = NoUser
    /\ channel = None
    /\ message = NoMessage
    /\ embed = NoEmbed
    /\ trace = <<>>
    /\ logged = <<>>
    /\ raised = None
    /\ dmSent = NoMsg
    /\ noticePosted = FALSE
    /\ noticeDeleteScheduled = FALSE
    /\ deleted = NoMsg
    /\ failedStep = None
    /\ ownEvent = FALSE

Return == pc' = "done"

(***************************************************************************)
(* The framework dispatches a reaction-added event into the listener.      *)
(***************************************************************************)
\* a reaction some user placed on some message
DispatchExternal ==
    /\ pc = "idle"
    /\ \E name \in EmojiNames, u \in UserIds, m \in 1..Len(msgs) :
          payload' = [emoji |-> name, user_id |-> u,
                      channel_id |-> msgs[m].channel, message_id |-> m]
    /\ ownEvent' = FALSE
    /\ pc' = "check_valid"
    /\ ResetInvocation
    /\ UNCHANGED <<cogVars, worldVars>>

\* the event of the reaction the bot itself added in _send_bookmark (line 140)
DispatchOwn ==
    /\ pc = "idle"
    /\ \E m \in pending :
          /\ payload' = [emoji |-> valid_remove_emojis, user_id |-> BotId,
                         channel_id |-> msgs[m].channel, message_id |-> m]
          /\ pending' = pending \ {m}
    /\ ownEvent' = TRUE
    /\ pc' = "check_valid"
    /\ ResetInvocation
    /\ UNCHANGED <<cogVars, msgs>>

Step(name) == trace' = Append(trace, name)
Log(kind) == logged' = Append(logged, kind)

(***************************************************************************)
(* on_raw_reaction_add, lines 40-41.                                       *)
(***************************************************************************)
CheckValid ==
    /\ pc = "check_valid"
    /\ Step("classify")
    /\ IF ~_is_valid_emoji(payload.emoji, valid_emojis)
       THEN Return
       ELSE pc' = "get_user"
    /\ UNCHANGED <<cogVars, worldVars, localVars, histVars>>

(***************************************************************************)
(* Lines 44-52: the reacting user, from the cache or by fetch_user.        *)
(***************************************************************************)
GetUserHit ==
    /\ pc = "get_user"
    /\ Step("get_user")
    /\ user' = CachedUser(payload.user_id)
    /\ pc' = "get_channel"
    /\ UNCHANGED <<cogVars, worldVars, payload, channel, message, embed, histVars>>

GetUserMiss ==
    /\ pc = "get_user"
    /\ payload.user_id # BotId
    /\ Step("get_user")
    /\ pc' = "fetch_user"
    /\ UNCHANGED <<cogVars, worldVars, localVars, histVars>>

\* where the coroutine continues after the try statement of lines 46-51:
\* line 52 is `return`, inside `if user is None:`
AfterFetchUser == "done"

FetchUserOk ==
    /\ pc = "fetch_user"
    /\ Step("fetch_user")
    /\ user' = FetchedUser(payload.user_id)
    /\ pc' = AfterFetchUser
    /\ UNCHANGED <<cogVars, worldVars, payload, channel, message, embed, histVars>>

FetchUserFail ==
    /\ pc = "fetch_user"
    /\ Step("fetch_user")
    /\ \E exc \in DiscordErrors :
          Log(IF IsInstance(exc, "NotFound") THEN "user_not_found" ELSE "fetch_user_failed")
    /\ failedStep' = "fetch_user"
    /\ pc' = AfterFetchUser
    /\ UNCHANGED <<cogVars, worldVars, localVars, raised, dmSent, noticePosted,
                   noticeDeleteScheduled,
                   deleted, ownEvent>>

(***************************************************************************)
(* Lines 54-64: the channel, from the cache or by fetch_channel.           *)
(***************************************************************************)
GetChannelHit ==
    /\ pc = "get_channel"
    /\ Step("get_channel")
    /\ channel' = payload.channel_id
    /\ pc' = "fetch_message"
    /\ UNCHANGED <<cogVars, worldVars, payload, user, message, embed, histVars>>

GetChannelMiss ==
    /\ pc = "get_channel"
    /\ Step("get_channel")
    /\ pc' = "fetch_channel"
    /\ UNCHANGED <<cogVars, worldVars, localVars, histVars>>

\* line 62 is `return`, inside `if channel is None:`
AfterFetchChannel == "done"

FetchChannelOk ==
    /\ pc = "fetch_channel"
    /\ Step("fetch_channel")
    /\ channel' = payload.channel_id
    /\ pc' = AfterFetchChannel
    /\ UNCHANGED <<cogVars, worldVars, payload, user, message, embed, histVars>>

FetchChannelFail ==
    /\ pc = "fetch_channel"
    /\ Step("fetch_channel")
    /\ \E exc \in DiscordErrors :
          Log(IF IsInstance(exc, "NotFound") THEN "channel_not_found" ELSE "fetch_channel_failed")
    /\ failedStep' = "fetch_channel"
    /\ pc' = AfterFetchChannel
    /\ UNCHANGED <<cogVars, worldVars, localVars, raised, dmSent, noticePosted,
                   noticeDeleteScheduled,
                   deleted, ownEvent>>

(***************************************************************************)
(* Lines 67-74: channel.fetch_message.                                     *)
(***************************************************************************)
FetchMessageOk ==
    /\ pc = "fetch_message"
    /\ msgs[payload.message_id].exists
    /\ Step("fetch_message")
    /\ message' = FetchedMessage(payload.message_id)
    /\ pc' = "branch"
    /\ UNCHANGED <<cogVars, worldVars, payload, user, channel, embed, histVars>>

\* a handler that logs and falls through to the two-branch check
AfterFetchMessageFail_FallsThrough == "branch"
\* a handler that logs and fetches again
AfterFetchMessageFail_Retries == "fetch_message"
\* where the coroutine continues after a failed fetch_message: `return`
\* (lines 71 and 74)
AfterFetchMessageFail == "done"

FetchMessageFail ==
    /\ pc = "fetch_message"
    /\ Step("fetch_message")
    /\ \E exc \in DiscordErrors :
          Log(IF IsInstance(exc, "NotFound") THEN "message_not_found" ELSE "fetch_message_failed")
    /\ failedStep' = "fetch_message"
    /\ pc' = AfterFetchMessageFail
    /\ UNCHANGED <<cogVars, worldVars, localVars, raised, dmSent, noticePosted,
                   noticeDeleteScheduled,
                   deleted, ownEvent>>

(***************************************************************************)
(* Lines 77-87: the two-branch check.                                      *)
(***************************************************************************)
BranchOf(emoji, u) ==
    IF _is_valid_emoji(emoji, valid_add_emojis) THEN "create_embed"
    ELSE IF _is_valid_emoji(emoji, valid_remove_emojis) /\ ~u.is_bot_user
         THEN "delete_bookmark"
         ELSE "done"

Branch ==
    /\ pc = "branch"
    /\ pc' = BranchOf(payload.emoji, user)
    /\ UNCHANGED <<cogVars, worldVars, localVars, trace, histVars>>

(***************************************************************************)
(* _create_bookmark_embed, lines 89-109.                                   *)
(***************************************************************************)
CreateEmbed ==
    /\ pc = "create_embed"
    /\ Step("create_embed")
    /\ embed' = _create_bookmark_embed(message.content)
    /\ message' = [message EXCEPT !.content = TruncatedContent(@)]
    /\ pc' = "user_send"
    /\ UNCHANGED <<cogVars, worldVars, payload, user, channel, histVars>>

(***************************************************************************)
(* _send_bookmark, lines 138-149.                                          *)
(***************************************************************************)
\* the except clause of line 142
CaughtBySendBookmark(exc) == IsInstance(exc, "Forbidden") \/ IsInstance(exc, "HTTPException")

\* where _send_bookmark continues when an exception raised in its try block
\* (user.send or add_reaction) is caught: the handler of lines 143-149
AfterCaughtInTry == "channel_send"

UserSendOk ==
    /\ pc = "user_send"
    /\ ~user.is_bot_user
    /\ Len(msgs) < NumInitialMsgs + MaxDMs
    /\ Step("user_send")
    /\ msgs' = Append(msgs, [author |-> BotId, channel |-> "dm", content |-> <<>>,
                             embed |-> embed, exists |-> TRUE])
    /\ dmSent' = Len(msgs) + 1
    /\ pc' = "add_reaction"
    /\ UNCHANGED <<cogVars, pending, localVars, logged, raised,
                   noticePosted, noticeDeleteScheduled, deleted, failedStep, ownEvent>>

UserSendFail ==
    /\ pc = "user_send"
    /\ ~user.is_bot_user
    /\ Step("user_send")
    /\ \E exc \in DiscordErrors :
          IF CaughtBySendBookmark(exc)
          THEN /\ Log("cannot_dm")
               /\ pc' = AfterCaughtInTry
               /\ raised' = raised
          ELSE /\ raised' = exc
               /\ Return
               /\ logged' = logged
    /\ failedStep' = "user_send"
    /\ UNCHANGED <<cogVars, worldVars, localVars, dmSent, noticePosted,
                   noticeDeleteScheduled, deleted, ownEvent>>

\* bot.user is a ClientUser, which has no send method: the attribute lookup
\* raises AttributeError, which line 142 does not catch
UserSendNoAttr ==
    /\ pc = "user_send"
    /\ user.is_bot_user
    /\ Step("user_send")
    /\ raised' = "AttributeError"
    /\ failedStep' = "user_send"
    /\ Return
    /\ UNCHANGED <<cogVars, worldVars, localVars, logged, dmSent, noticePosted,
                   noticeDeleteScheduled,
                   deleted, ownEvent>>

AddReactionOk ==
    /\ pc = "add_reaction"
    /\ Step("add_reaction")
    /\ pending' = pending \cup {dmSent}
    /\ Return
    /\ UNCHANGED <<cogVars, msgs, localVars, histVars>>

AddReactionFail ==
    /\ pc = "add_reaction"
    /\ Step("add_reaction")
    /\ \E exc \in DiscordErrors :
          IF CaughtBySendBookmark(exc)
          THEN /\ Log("cannot_dm")
               /\ pc' = AfterCaughtInTry
               /\ raised' = raised
          ELSE /\ raised' = exc
               /\ Return
               /\ logged' = logged
    /\ failedStep' = "add_reaction"
    /\ UNCHANGED <<cogVars, worldVars, localVars, dmSent, noticePosted,
                   noticeDeleteScheduled, deleted, ownEvent>>

\* line 145, inside the except handler: nothing catches what it raises
ChannelSendOk ==
    /\ pc = "channel_send"
    /\ Step("channel_send")
    /\ noticePosted' = TRUE
    /\ pc' = "notify_delete"
    /\ UNCHANGED <<cogVars, worldVars, localVars, logged, raised, dmSent, deleted,
                   noticeDeleteScheduled, failedStep, ownEvent>>

ChannelSendFail ==
    /\ pc = "channel_send"
    /\ Step("channel_send")
    /\ \E exc \in DiscordErrors : raised' = exc
    /\ Return
    /\ UNCHANGED <<cogVars, worldVars, localVars, logged, dmSent, noticePosted,
                   noticeDeleteScheduled,
                   deleted, failedStep, ownEvent>>

\* line 149: delete(delay=30) only schedules the deletion (a background task
\* of the library that swallows its own failure) and returns
NotifyDelete ==
    /\ pc = "notify_delete"
    /\ Step("notify_delete")
    /\ noticeDeleteScheduled' = TRUE
    /\ Return
    /\ UNCHANGED <<cogVars, worldVars, localVars, logged, raised, dmSent, noticePosted,
                   deleted, failedStep, ownEvent>>

(***************************************************************************)
(* _delete_bookmark, lines 111-114.                                        *)
(***************************************************************************)
\* line 112: `message.author is not self.bot.user`
ShouldSkipDelete(m) == ~m.author_is_bot_user

DeleteSkip ==
    /\ pc = "delete_bookmark"
    /\ ShouldSkipDelete(message)
    /\ Return
    /\ UNCHANGED <<cogVars, worldVars, localVars, trace, histVars>>

DeleteOk ==
    /\ pc = "delete_bookmark"
    /\ ~ShouldSkipDelete(message)
    /\ msgs[message.id].exists
    /\ Step("message_delete")
    /\ msgs' = [msgs EXCEPT ![message.id].exists = FALSE]
    /\ deleted' = message.id
    /\ Return
    /\ UNCHANGED <<cogVars, pending, localVars, logged, raised,
                   dmSent, noticePosted, noticeDeleteScheduled, failedStep, ownEvent>>

\* message.delete() is awaited outside any try statement
DeleteFail ==
    /\ pc = "delete_bookmark"
    /\ ~ShouldSkipDelete(message)
    /\ Step("message_delete")
    /\ \E exc \in DiscordErrors : raised' = exc
    /\ Return
    /\ UNCHANGED <<cogVars, worldVars, localVars, logged, dmSent, noticePosted,
                   noticeDeleteScheduled,
                   deleted, failedStep, ownEvent>>

(***************************************************************************)
(* The coroutine has returned (or raised): the framework's task ends and   *)
(* the invocation's locals are gone.                                       *)
(***************************************************************************)
Finish ==
    /\ pc = "done"
    /\ pc' = "idle"
    /\ payload' = NoPayload
    /\ ownEvent' = FALSE
    /\ ResetInvocation
    /\ UNCHANGED <<cogVars, worldVars>>

Next ==
    \/ DispatchExternal
    \/ DispatchOwn
    \/ CheckValid
    \/ GetUserHit
    \/ GetUserMiss
    \/ FetchUserOk
    \/ FetchUserFail
    \/ GetChannelHit
    \/ GetChannelMiss
    \/ FetchChannelOk
    \/ FetchChannelFail
    \/ FetchMessageOk
    \/ FetchMessageFail
    \/ Branch
    \/ CreateEmbed
    \/ UserSendOk
    \/ UserSendFail
    \/ UserSendNoAttr
    \/ AddReactionOk
    \/ AddReactionFail
    \/ ChannelSendOk
    \/ ChannelSendFail
    \/ NotifyDelete
    \/ DeleteSkip
    \/ DeleteOk
    \/ DeleteFail
    \/ Finish

Spec == Init /\ [][Next]_vars

(***************************************************************************)
(* _create_bookmark_embed on its own: a fetched message of every content   *)
(* up to MaxContentLen, and the one step that builds its embed.            *)
(***************************************************************************)
InitEmbed ==
    /\ valid_add_emojis = <<1>>
    /\ valid_remove_emojis = <<2>>
    /\ valid_emojis = <<1, 2>>
    /\ \E c \in Contents :
          /\ msgs = << [author |-> HumanId, channel |-> "guild", content |-> c,
                        embed |-> NoEmbed, exists |-> TRUE] >>
          /\ message = [id |-> 1, author |-> HumanId, author_is_bot_user |-> FALSE,
                        channel |-> "guild", content |-> c]
    /\ pending = {}
    /\ pc = "create_embed"
    /\ payload = [emoji |-> <<1>>, user_id |-> HumanId, channel_id |-> "guild",
                  message_id |-> 1]
    /\ user = CachedUser(HumanId)
    /\ channel = "guild"
    /\ embed = NoEmbed
    /\ trace = <<"classify", "get_user", "get_channel", "fetch_message">>
    /\ logged = <<>>
    /\ raised = None
    /\ dmSent = NoMsg
    /\ noticePosted = FALSE
    /\ noticeDeleteScheduled = FALSE
    /\ deleted = NoMsg
    /\ failedStep = None
    /\ ownEvent = FALSE

NextEmbed == CreateEmbed

SpecEmbed == InitEmbed /\ [][NextEmbed]_vars

(***************************************************************************)
(* Vocabulary of the properties.                                           *)
(***************************************************************************)
Count(seq, x) == Cardinality({i \in DOMAIN seq : seq[i] = x})
Called(step) == Count(trace, step) > 0
Running == pc # "idle"
Returned == pc = "done"

IsAddEvent == payload.emoji = valid_add_emojis
IsRemoveEvent == payload.emoji = valid_remove_emojis

FetchSteps == {"fetch_user", "fetch_channel", "fetch_message"}
\* a user, channel or message that was looked for was obtained, and
\* user.send, if called, did not fail
Obtained == failedStep \notin FetchSteps
UserSendFailed == failedStep = "user_send"

\* the place of every step in the listener's program order
StepRank(step) ==
    CASE step = "classify" -> 1
      [] step = "get_user" -> 2
      [] step = "fetch_user" -> 3
      [] step = "get_channel" -> 4
      [] step = "fetch_channel" -> 5
      [] step = "fetch_message" -> 6
      [] step = "create_embed" -> 7
      [] step = "message_delete" -> 7
      [] step = "user_send" -> 8
      [] step = "add_reaction" -> 9
      [] step = "channel_send" -> 10
      [] step = "notify_delete" -> 11

MessagesSent == (IF dmSent # NoMsg THEN 1 ELSE 0) + (IF noticePosted THEN 1 ELSE 0)

(***************************************************************************)
(* C1: an add-bookmark event whose user, channel and message are obtained  *)
(* (none of the look-ups made fails) and whose user.send does not fail     *)
(* has, when the listener returns, sent the bookmark embed of the message  *)
(* to the reacting user as a direct message.                               *)
(***************************************************************************)
C1_AddBookmarkSendsDM ==
    (Returned /\ IsAddEvent /\ Obtained /\ ~UserSendFailed)
        => /\ dmSent # NoMsg
           /\ msgs[dmSent].channel = "dm"
           /\ msgs[dmSent].embed = _create_bookmark_embed(msgs[payload.message_id].content)

(***************************************************************************)
(* C2: a remove-bookmark event placed by a user other than the bot on a    *)
(* message authored by the bot, whose user, channel and message are        *)
(* obtained, has called delete on that message when the listener returns.  *)
(***************************************************************************)
C2_RemoveBookmarkDeletes ==
    (/\ Returned
     /\ IsRemoveEvent
     /\ payload.user_id # BotId
     /\ msgs[payload.message_id].author = BotId
     /\ Obtained)
        => Called("message_delete")

(***************************************************************************)
(* C3: the listener deletes a message only if the event's emoji is the     *)
(* remove-bookmark emoji, the message's author is the bot and the reacting *)
(* user is not the bot: a message of another author is never deleted, an   *)
(* add-bookmark event deletes nothing, and the event of the bot's own      *)
(* remove-bookmark reaction on a bookmark DM never deletes that DM.        *)
(***************************************************************************)
C3_DeleteOnlyOnRemoveOfBotMessage ==
    /\ Called("message_delete")
          => /\ IsRemoveEvent
             /\ message.id = payload.message_id
             /\ msgs[payload.message_id].author = BotId
             /\ payload.user_id # BotId
    /\ deleted # NoMsg => Called("message_delete")
    /\ IsAddEvent => ~Called("message_delete")
    /\ ownEvent => ~Called("message_delete")
    /\ \A m \in 1..Len(msgs) : msgs[m].author # BotId => msgs[m].exists

(***************************************************************************)
(* C4: when fetch_user, fetch_channel or fetch_message fails with          *)
(* NotFound, Forbidden or HTTPException the listener logs the error and    *)
(* returns normally; it sends no direct message, posts no channel message, *)
(* deletes nothing, and makes no call after the failed one.                *)
(***************************************************************************)
C4_FetchFailureLogsAndReturns ==
    failedStep \in FetchSteps
        => /\ Returned
           /\ Len(logged) = 1
           /\ raised = None
           /\ dmSent = NoMsg
           /\ ~noticePosted
           /\ deleted = NoMsg
           /\ trace[Len(trace)] = failedStep
           /\ \A i \in DOMAIN trace :
                 trace[i] \notin {"create_embed", "user_send", "add_reaction",
                                  "channel_send", "notify_delete", "message_delete"}

C4_Witness ==
    /\ Returned
    /\ failedStep = "fetch_message"
    /\ logged = <<"message_not_found">>
    /\ IsAddEvent

(***************************************************************************)
(* C5: no NotFound, Forbidden or HTTPException raised by a library call    *)
(* leaves on_raw_reaction_add.                                             *)
(***************************************************************************)
C5_NoDiscordErrorPropagates == raised \notin DiscordErrors

(***************************************************************************)
(* C6: one invocation sends at most one message, the direct message and    *)
(* the channel notice counted together.                                    *)
(***************************************************************************)
C6_AtMostOneMessageSent == MessagesSent <= 1

(***************************************************************************)
(* C7: the steps of one invocation happen in program order, each at most   *)
(* once (no retry, also not of a failed fetch); nothing is sent and        *)
(* nothing is deleted before fetch_message for the event's message id has  *)
(* succeeded.                                                              *)
(***************************************************************************)
C7_FixedOrderNoRetry ==
    /\ \A i, j \in DOMAIN trace : i < j => StepRank(trace[i]) < StepRank(trace[j])
    /\ \A step \in FetchSteps : Count(trace, step) <= 1
    /\ (Called("user_send") \/ Called("message_delete") \/ Called("channel_send")
            \/ dmSent # NoMsg \/ deleted # NoMsg \/ noticePosted)
          => /\ Called("fetch_message")
             /\ failedStep # "fetch_message"
             /\ message.id = payload.message_id
    /\ Called("user_send") => Called("create_embed")
    /\ Called("fetch_message") => Called("get_channel")
    /\ Called("get_channel") => Called("get_user")
    /\ Called("get_user") => Called("classify")

C7_Witness ==
    /\ Returned
    /\ dmSent # NoMsg
    /\ trace = <<"classify", "get_user", "get_channel", "fetch_message",
                 "create_embed", "user_send", "add_reaction">>

(***************************************************************************)
(* C8: an event whose emoji name is neither exactly the add-bookmark emoji *)
(* nor exactly the remove-bookmark emoji has no effect (no cache look-up,  *)
(* no network call, nothing sent, nothing deleted), and every emoji that   *)
(* passes the check against valid_emojis is classified as add or as remove *)
(* by the two-branch check.                                                *)
(***************************************************************************)
C8_OtherEmojiHasNoEffect ==
    Running =>
        /\ (~IsAddEvent /\ ~IsRemoveEvent)
              => /\ \A i \in DOMAIN trace : trace[i] = "classify"
                 /\ dmSent = NoMsg
                 /\ deleted = NoMsg
                 /\ ~noticePosted
        /\ _is_valid_emoji(payload.emoji, valid_emojis)
              => \/ _is_valid_emoji(payload.emoji, valid_add_emojis)
                 \/ _is_valid_emoji(payload.emoji, valid_remove_emojis)

(***************************************************************************)
(* C9: _send_bookmark posts the channel notice (and schedules its          *)
(* deletion) if and only if user.send failed with Forbidden or             *)
(* HTTPException; when user.send succeeds no notice is posted.             *)
(***************************************************************************)
C9_NoticeIffDMNotDelivered ==
    /\ Returned =>
          (Called("channel_send") <=> (UserSendFailed /\ Count(logged, "cannot_dm") > 0))
    /\ dmSent # NoMsg => ~Called("channel_send")
    /\ (Returned /\ noticePosted) => noticeDeleteScheduled

(***************************************************************************)
(* C10: the description of the embed _create_bookmark_embed builds is at   *)
(* most EMBED_MAX_DESC_LENGTH long; content longer than the limit is cut   *)
(* and ends with "...", content within the limit is kept unchanged.        *)
(***************************************************************************)
C10_DescriptionWithinLimit ==
    Called("create_embed") =>
        LET original == msgs[payload.message_id].content IN
        /\ Len(embed.description) <= EMBED_MAX_DESC_LENGTH
        /\ Len(original) > EMBED_MAX_DESC_LENGTH
              => /\ Len(message.content) = EMBED_MAX_DESC_LENGTH
                 /\ SubSeq(message.content, EMBED_MAX_DESC_LENGTH - 2,
                           EMBED_MAX_DESC_LENGTH) = Ellipsis
                 /\ SubSeq(message.content, 1, EMBED_MAX_DESC_LENGTH - 3)
                       = SubSeq(original, 1, EMBED_MAX_DESC_LENGTH - 3)
        /\ Len(original) <= EMBED_MAX_DESC_LENGTH => message.content = original

====
